---- MODULE Spec2Model ----
(***************************************************************************)
(* A model of script.js, the JSONPlaceholder demonstration client: the     *)
(* request helper makeRequest, the endpoint wrappers, and the demo         *)
(* drivers runFullDemo / quickTest / interactiveDemo.                      *)
(*                                                                         *)
(* JavaScript runs each continuation to completion, so one action of the   *)
(* model is one entry call or one network event together with all the     *)
(* synchronous code that follows it, up to the next await of a network     *)
(* promise (fetch(...) or response.json()).                                *)
(***************************************************************************)
EXTENDS Integers, Sequences, FiniteSets, TLC

\* Longest array a response body (or an argument) holds.
MaxLen == 2
\* Largest identifier used in arguments and in response bodies.
MaxId == 2

----------------------------------------------------------------------------
(* JavaScript values, tagged by their type.  An object is the sequence of  *)
(* its <<key, value>> properties in insertion order.                       *)

Undef == [t |-> "undefined"]
Null == [t |-> "null"]
Num(n) == [t |-> "number", n |-> n]
Str(s) == [t |-> "string", s |-> s]
Bool(b) == [t |-> "boolean", b |-> b]
Obj(f) == [t |-> "object", f |-> f]
Arr(a) == [t |-> "array", a |-> a]

IsNullish(v) == v.t \in {"undefined", "null"}

\* The indexes of the properties of f whose key is k.
KeyIndexes(f, k) == {i \in 1..Len(f) : f[i][1] = k}

HasKey(f, k) == KeyIndexes(f, k) # {}

\* f[k]: the value of property k of the property list f, undefined if absent.
Lookup(f, k) ==
    IF HasKey(f, k) THEN f[CHOOSE i \in KeyIndexes(f, k) : TRUE][2] ELSE Undef

\* The property list f after the assignment f[k] = v: an existing key keeps
\* its position, a new key is appended.
SetKey(f, k, v) ==
    IF HasKey(f, k)
    THEN [i \in 1..Len(f) |-> IF f[i][1] = k THEN <<k, v>> ELSE f[i]]
    ELSE Append(f, <<k, v>>)

RECURSIVE SpreadFrom(_, _, _)
SpreadFrom(f, g, i) ==
    IF i > Len(g) THEN f ELSE SpreadFrom(SetKey(f, g[i][1], g[i][2]), g, i + 1)

\* { ...f, ...v }: the own properties of v copied over f, later keys winning.
\* Spreading undefined or null copies nothing.
Spread(f, v) == IF v.t = "object" THEN SpreadFrom(f, v.f, 1) ELSE f

\* v.k for a non-nullish v (the callers check IsNullish first: a property
\* read of undefined or null throws a TypeError).
GetProp(v, k) ==
    CASE v.t = "object" -> Lookup(v.f, k)
      [] v.t = "array" /\ k = "length" -> Num(Len(v.a))
      [] v.t = "string" /\ k = "length" -> Num(Len(v.s))
      [] OTHER -> Undef

\* v[0] for a non-nullish v.
First(v) ==
    CASE v.t = "array" /\ Len(v.a) > 0 -> v.a[1]
      [] OTHER -> Undef

\* ToBoolean(v).
Truthy(v) ==
    CASE v.t = "undefined" -> FALSE
      [] v.t = "null" -> FALSE
      [] v.t = "boolean" -> v.b
      [] v.t = "number" -> v.n # 0
      [] v.t = "string" -> v.s # ""
      [] OTHER -> TRUE

\* `${v}`: the string a template literal substitutes for v.
TemplateStr(v) ==
    CASE v.t = "undefined" -> "undefined"
      [] v.t = "null" -> "null"
      [] v.t = "boolean" -> IF v.b THEN "true" ELSE "false"
      [] v.t = "number" -> ToString(v.n)
      [] v.t = "string" -> v.s
      [] OTHER -> "[object Object]"

RECURSIVE JSONText(_)
RECURSIVE JSONMembers(_, _, _)
RECURSIVE JSONElements(_, _)

\* The members of an object literal from property i on; `first` tells
\* whether no member was written yet.  Properties whose value is undefined
\* are left out.
JSONMembers(f, i, first) ==
    IF i > Len(f) THEN ""
    ELSE IF f[i][2].t = "undefined" THEN JSONMembers(f, i + 1, first)
    ELSE (IF first THEN "" ELSE ",")
         \o "\"" \o f[i][1] \o "\":" \o JSONText(f[i][2])
         \o JSONMembers(f, i + 1, FALSE)

\* The elements of an array literal from element i on; undefined is null.
JSONElements(a, i) ==
    IF i > Len(a) THEN ""
    ELSE (IF i = 1 THEN "" ELSE ",") \o JSONText(a[i]) \o JSONElements(a, i + 1)

JSONText(v) ==
    CASE v.t = "undefined" -> "null"
      [] v.t = "null" -> "null"
      [] v.t = "boolean" -> IF v.b THEN "true" ELSE "false"
      [] v.t = "number" -> ToString(v.n)
      [] v.t = "string" -> "\"" \o v.s \o "\""
      [] v.t = "array" -> "[" \o JSONElements(v.a, 1) \o "]"
      [] v.t = "object" -> "{" \o JSONMembers(v.f, 1, TRUE) \o "}"

\* JSON.stringify(v): undefined for undefined, the JSON text otherwise.
JSON_stringify(v) == IF v.t = "undefined" THEN Undef ELSE Str(JSONText(v))

----------------------------------------------------------------------------
(* The request helper's view of fetch.                                     *)

API_BASE_URL == "https://jsonplaceholder.typicode.com"

\* The statuses the service answers with.
Statuses == {200, 201, 204, 404, 500}

\* response.ok: the status is in the range 200-299.
\* (Variant: only 5xx statuses count as failures.)
ResponseOk_Any4xx(status) == status < 500
ResponseOk(status) == status >= 200 /\ status <= 299

\* response.status === 204
\* (Variant: no special case for 204.)
IsNoContent_Never(status) == FALSE
IsNoContent(status) == status = 204

\* The literal { 'Content-Type': 'application/json' } of makeRequest.
DefaultHeaders == << <<"Content-Type", Str("application/json")>> >>

\* The second argument makeRequest hands to fetch,
\*   { headers: { 'Content-Type': 'application/json', ...options.headers },
\*     ...options }
\* as a property list: the properties of options are spread last, so a
\* headers property of options replaces the merged one.
FetchInit(options) ==
    Spread(<< <<"headers", Obj(Spread(DefaultHeaders, Lookup(options.f, "headers")))>> >>,
           options)

\* The request fetch(url, init) puts on the wire.
Request(url, init) ==
    [method |-> IF Lookup(init, "method").t = "undefined"
                THEN "GET" ELSE TemplateStr(Lookup(init, "method")),
     url |-> url,
     headers |-> Lookup(init, "headers"),
     body |-> Lookup(init, "body")]

\* makeRequest(url, options = {}): an omitted or undefined options is {}.
OptionsOrDefault(options) == IF options.t = "undefined" THEN Obj(<< >>) ELSE options

HttpError(status) ==
    [name |-> "Error", message |-> "HTTP error! status: " \o ToString(status)]
NetworkError == [name |-> "TypeError", message |-> "fetch failed"]
ParseError == [name |-> "SyntaxError", message |-> "Unexpected token in JSON"]
PropertyError == [name |-> "TypeError", message |-> "Cannot read properties"]

\* How a call ends.
Return(v) == [k |-> "return", v |-> v]
Throw(e) == [k |-> "throw", e |-> e]
Pending == [k |-> "pending"]

\* { success: true }
SuccessMarker == Obj(<< <<"success", Bool(TRUE)>> >>)

\* Console lines.
Log(msg) == [ch |-> "log", msg |-> msg]
LogError(msg, e) == [ch |-> "error", msg |-> msg, err |-> e]

ApiErrorLine(e) == LogError("API Request failed:", e)

----------------------------------------------------------------------------
(* The endpoint wrappers.                                                  *)

Wrappers ==
    {"getAllPosts", "getPost", "getPostsByUser", "createPost", "updatePost",
     "patchPost", "deletePost", "getAllComments", "getCommentsForPost",
     "getAllUsers", "getUser", "getUserAlbums", "getUserTodos", "getAllAlbums",
     "getAlbumPhotos", "getAllPhotos", "getAllTodos", "getCompletedTodos"}

\* The URL a wrapper composes from its arguments a.
\* The path of getCommentsForPost.  (Variant: the query form the source
\* keeps in a comment, /comments?postId=.)
CommentsForPostPath_ByQuery(postId) == "/comments?postId=" \o TemplateStr(postId)
CommentsForPostPath(postId) == "/posts/" \o TemplateStr(postId) \o "/comments"

WrapperUrl(w, a) ==
    CASE w = "getAllPosts" -> API_BASE_URL \o "/posts"
      [] w = "getPost" -> API_BASE_URL \o "/posts/" \o TemplateStr(a[1])
      [] w = "getPostsByUser" -> API_BASE_URL \o "/posts?userId=" \o TemplateStr(a[1])
      [] w = "createPost" -> API_BASE_URL \o "/posts"
      [] w = "updatePost" -> API_BASE_URL \o "/posts/" \o TemplateStr(a[1])
      [] w = "patchPost" -> API_BASE_URL \o "/posts/" \o TemplateStr(a[1])
      [] w = "deletePost" -> API_BASE_URL \o "/posts/" \o TemplateStr(a[1])
      [] w = "getAllComments" -> API_BASE_URL \o "/comments"
      [] w = "getCommentsForPost" -> API_BASE_URL \o CommentsForPostPath(a[1])
      [] w = "getAllUsers" -> API_BASE_URL \o "/users"
      [] w = "getUser" -> API_BASE_URL \o "/users/" \o TemplateStr(a[1])
      [] w = "getUserAlbums" ->
            API_BASE_URL \o "/users/" \o TemplateStr(a[1]) \o "/albums"
      [] w = "getUserTodos" ->
            API_BASE_URL \o "/users/" \o TemplateStr(a[1]) \o "/todos"
      [] w = "getAllAlbums" -> API_BASE_URL \o "/albums"
      [] w = "getAlbumPhotos" ->
            API_BASE_URL \o "/albums/" \o TemplateStr(a[1]) \o "/photos"
      [] w = "getAllPhotos" -> API_BASE_URL \o "/photos"
      [] w = "getAllTodos" -> API_BASE_URL \o "/todos"
      [] w = "getCompletedTodos" -> API_BASE_URL \o "/todos"

\* The options a wrapper passes to makeRequest (undefined: none passed).
WrapperOptions(w, a) ==
    CASE w = "createPost" ->
            Obj(<< <<"method", Str("POST")>>, <<"body", JSON_stringify(a[1])>> >>)
      [] w = "updatePost" ->
            Obj(<< <<"method", Str("PUT")>>,
                   <<"body", JSON_stringify(Obj(Spread(<< <<"id", a[1]>> >>, a[2])))>> >>)
      [] w = "patchPost" ->
            Obj(<< <<"method", Str("PATCH")>>, <<"body", JSON_stringify(a[2])>> >>)
      [] w = "deletePost" -> Obj(<< <<"method", Str("DELETE")>> >>)
      [] OTHER -> Undef

\* The line a wrapper logs before its request.
BeforeLine(w, a) ==
    CASE w = "getAllPosts" -> Log("Fetching all posts...")
      [] w = "getPost" -> Log("Fetching post " \o TemplateStr(a[1]) \o "...")
      [] w = "getPostsByUser" ->
            Log("Fetching posts by user " \o TemplateStr(a[1]) \o "...")
      [] w = "createPost" -> Log("Creating new post...")
      [] w = "updatePost" -> Log("Updating post " \o TemplateStr(a[1]) \o "...")
      [] w = "patchPost" -> Log("Patching post " \o TemplateStr(a[1]) \o "...")
      [] w = "deletePost" -> Log("Deleting post " \o TemplateStr(a[1]) \o "...")
      [] w = "getAllComments" -> Log("Fetching all comments...")
      [] w = "getCommentsForPost" ->
            Log("Fetching comments for post " \o TemplateStr(a[1]) \o "...")
      [] w = "getAllUsers" -> Log("Fetching all users...")
      [] w = "getUser" -> Log("Fetching user " \o TemplateStr(a[1]) \o "...")
      [] w = "getUserAlbums" ->
            Log("Fetching albums for user " \o TemplateStr(a[1]) \o "...")
      [] w = "getUserTodos" ->
            Log("Fetching todos for user " \o TemplateStr(a[1]) \o "...")
      [] w = "getAllAlbums" -> Log("Fetching all albums...")
      [] w = "getAlbumPhotos" ->
            Log("Fetching photos from album " \o TemplateStr(a[1]) \o "...")
      [] w = "getAllPhotos" -> Log("Fetching all photos...")
      [] w = "getAllTodos" -> Log("Fetching all todos...")
      [] w = "getCompletedTodos" -> Log("Fetching completed todos...")

\* The line a wrapper logs after its request.  The values read from the
\* response (counts, titles, names) are not kept in the line.
AfterLine(w, a) ==
    CASE w = "getPost" -> Log("Retrieved post")
      [] w = "createPost" -> Log("Created post with ID")
      [] w = "updatePost" -> Log("Updated post " \o TemplateStr(a[1]))
      [] w = "patchPost" -> Log("Patched post " \o TemplateStr(a[1]))
      [] w = "deletePost" -> Log("Deleted post " \o TemplateStr(a[1]))
      [] w = "getUser" -> Log("Retrieved user")
      [] w = "getCompletedTodos" -> Log("Found completed todos")
      [] w \in {"getAllPosts", "getAllComments", "getAllUsers", "getAllAlbums",
                "getAllPhotos", "getAllTodos"} -> Log("Retrieved " \o w)
      [] OTHER -> Log("Found " \o w \o " " \o TemplateStr(a[1]))

\* todo => todo.completed, as the filter's test (ToBoolean of the result).
\* (Variant: a test that keeps every element.)
IsCompleted_All(todo) == TRUE
IsCompleted(todo) == Truthy(GetProp(todo, "completed"))

\* todos.filter(todo => todo.completed)
CompletedFilter(a) == SelectSeq(a, IsCompleted)

\* Whether a wrapper throws a TypeError on the value v makeRequest returned:
\* updatePost, patchPost and deletePost never read v; getCompletedTodos calls
\* v.filter and reads .completed of every element; the others read a
\* property of v for their result line.
WrapperThrows(w, v) ==
    CASE w \in {"updatePost", "patchPost", "deletePost"} -> FALSE
      [] w = "getCompletedTodos" ->
            \/ v.t # "array"
            \/ \E i \in 1..Len(v.a) : IsNullish(v.a[i])
      [] OTHER -> IsNullish(v)

\* The value a wrapper returns on the value v makeRequest returned.
WrapperResult(w, v) ==
    IF w = "getCompletedTodos" THEN Arr(CompletedFilter(v.a)) ELSE v

\* How a wrapper call ends, given how its makeRequest call ended.
WrapperOutcome(w, o) ==
    IF o.k = "throw" THEN o
    ELSE IF WrapperThrows(w, o.v) THEN Throw(PropertyError)
    ELSE Return(WrapperResult(w, o.v))

----------------------------------------------------------------------------
(* The demo drivers.                                                       *)

Call(w, args) == [w |-> w, args |-> args]

\* The wrapper calls of runFullDemo, in program order.  newPostId is
\* newPost.id, the only part of an earlier result a later call uses.
FullDemoProgram(newPostId) ==
    << Call("getPost", <<Num(1)>>),
       Call("getPostsByUser", <<Num(1)>>),
       Call("createPost",
            << Obj(<< <<"title", Str("My Test Post")>>,
                      <<"body", Str("This is a test post created via API")>>,
                      <<"userId", Num(1)>> >>) >>),
       Call("updatePost",
            << newPostId,
               Obj(<< <<"title", Str("Updated Test Post")>>,
                      <<"body", Str("This post has been updated")>>,
                      <<"userId", Num(1)>> >>) >>),
       Call("patchPost",
            << newPostId, Obj(<< <<"title", Str("Patched Test Post")>> >>) >>),
       Call("getCommentsForPost", <<Num(1)>>),
       Call("getAllUsers", << >>),
       Call("getUser", <<Num(1)>>),
       Call("getUserAlbums", <<Num(1)>>),
       Call("getUserTodos", <<Num(1)>>),
       Call("getAllAlbums", << >>),
       Call("getAlbumPhotos", <<Num(1)>>),
       Call("getAllTodos", << >>),
       Call("getCompletedTodos", << >>) >>

\* The wrapper calls of quickTest, in program order.
QuickTestProgram ==
    << Call("getPost", <<Num(1)>>),
       Call("createPost",
            << Obj(<< <<"title", Str("Quick Test Post")>>,
                      <<"body", Str("Testing POST request")>>,
                      <<"userId", Num(99)>> >>) >>),
       Call("getPostsByUser", <<Num(1)>>),
       Call("getCommentsForPost", <<Num(1)>>) >>

Drivers == {"runFullDemo", "quickTest", "main"}

\* The calls an entry point makes: a driver's program, or the one call of a
\* wrapper or of makeRequest called directly.  "main" is quickTest run by
\* the require.main === module branch.
Program(entry, c, newPostId) ==
    CASE entry = "runFullDemo" -> FullDemoProgram(newPostId)
      [] entry \in {"quickTest", "main"} -> QuickTestProgram
      [] OTHER -> <<c>>

BannerLine(entry) ==
    IF entry = "runFullDemo"
    THEN Log("\nDemo completed successfully!")
    ELSE Log("\nAll tests passed! API is working correctly.")

FailLine(entry, e) ==
    IF entry = "runFullDemo"
    THEN LogError("Demo failed:", e)
    ELSE LogError("Quick test failed:", e)

SummaryLines ==
    << Log("DEMO SUMMARY"), Log("--------------------"), Log("Posts by user 1"),
       Log("Comments on post 1"), Log("Users total"), Log("Albums total"),
       Log("Photos in album 1"), Log("Todos total") >>

\* The lines a driver logs before its first call.
DriverIntro(entry) ==
    CASE entry = "runFullDemo" ->
            << Log("Starting JSONPlaceholder API Demo"),
               Log("=====================================\n"),
               Log("1 POSTS DEMO"), Log("--------------------") >>
      [] entry \in {"quickTest", "main"} -> << Log("Running Quick Test...\n") >>
      [] OTHER -> << >>

\* The lines a driver logs after the call of a step has returned and before
\* its next call (after the last step: up to the end of the try block).
DriverAfterStep(entry, step) ==
    CASE entry = "runFullDemo" /\ step = 5 ->
            << Log("\n"), Log("2 COMMENTS DEMO"), Log("--------------------") >>
      [] entry = "runFullDemo" /\ step = 6 ->
            << Log("First comment"), Log("\n"), Log("3 USERS DEMO"),
               Log("--------------------") >>
      [] entry = "runFullDemo" /\ step = 10 ->
            << Log("\n"), Log("4 ALBUMS & PHOTOS DEMO"),
               Log("-------------------------") >>
      [] entry = "runFullDemo" /\ step = 12 ->
            << Log("Sample photo"), Log("\n"), Log("5 TODOS DEMO"),
               Log("---------------") >>
      [] entry = "runFullDemo" /\ step = 14 ->
            << Log("Todo completion rate"), Log("\n") >>
               \o SummaryLines \o << BannerLine(entry) >>
      [] entry \in {"quickTest", "main"} /\ step = 1 ->
            << Log("GET request successful") >>
      [] entry \in {"quickTest", "main"} /\ step = 2 ->
            << Log("POST request successful") >>
      [] entry \in {"quickTest", "main"} /\ step = 3 ->
            << Log("Query parameters working") >>
      [] entry \in {"quickTest", "main"} /\ step = 4 ->
            << Log("Nested routes working"), BannerLine(entry) >>
      [] OTHER -> << >>

\* Whether the driver's own code after a step throws on the step's result v:
\* runFullDemo evaluates comments[0]?.body.substring(0, 50) after step 6,
\* a TypeError unless comments[0] is nullish or its body is a string.
DriverStepThrows(entry, step, v) ==
    /\ entry = "runFullDemo"
    /\ step = 6
    /\ ~IsNullish(First(v))
    /\ GetProp(First(v), "body").t # "string"

\* The lines of the .then callback of the require.main === module branch.
Hints(entry) ==
    IF entry = "main"
    THEN << Log("\nTo run full demo: node script.js --full"),
            Log("\nTo run interactive: open this file in browser console") >>
    ELSE << >>

\* The lines of interactiveDemo (the catalog itself is one line here).
CatalogLines ==
    << Log("Interactive JSONPlaceholder Demo"),
       Log("=================================="),
       Log("Available functions you can try:"),
       Log("Try: await getPost(1)") >>

\* Whether control passes to the driver's catch block after a step: the
\* awaited wrapper call threw, or the driver's own code after it threw.
\* (Variant: an error thrown by the awaited call is swallowed.)
StepFailed_OwnCodeOnly(wrapperThrew, ownCodeThrew) == ownCodeThrew
StepFailed(wrapperThrew, ownCodeThrew) == wrapperThrew \/ ownCodeThrew

\* makeRequest's request for the call c.
RequestOf(c) ==
    IF c.w = "makeRequest"
    THEN Request(c.args[1].s, FetchInit(OptionsOrDefault(c.args[2])))
    ELSE Request(WrapperUrl(c.w, c.args),
                 FetchInit(OptionsOrDefault(WrapperOptions(c.w, c.args))))

\* The requests put on the wire when control reaches step `step` of the
\* program prog: the call is awaited, so only its own request.
\* (Variants: the call is not awaited, so the next call's request goes out
\* with it; and the request is never sent.)
Issued_NoAwait(prog, step) ==
    << RequestOf(prog[step]) >>
        \o (IF step < Len(prog) THEN << RequestOf(prog[step + 1]) >> ELSE << >>)
Issued_Nothing(prog, step) == << >>
Issued(prog, step) == << RequestOf(prog[step]) >>

----------------------------------------------------------------------------
(* Inputs: arguments of direct calls and the service's answers.            *)

SeqsUpTo(S, n) == UNION {[1..k -> S] : k \in 0..n}

Ids == {Num(i) : i \in 1..MaxId} \cup {Undef}

PostDatas ==
    { Obj(<< <<"title", Str("t")>>, <<"body", Str("b")>>, <<"userId", Num(1)>> >>),
      Obj(<< <<"title", Str("t")>> >>),
      Obj(<< >>) }
    \cup { Obj(<< <<"title", Str("t")>>, <<"id", Num(i)>> >>) : i \in 1..MaxId }

\* The argument lists a caller may pass to wrapper w.
WrapperArgs(w) ==
    CASE w \in {"getAllPosts", "getAllComments", "getAllUsers", "getAllAlbums",
                "getAllPhotos", "getAllTodos", "getCompletedTodos"} -> { << >> }
      [] w = "createPost" -> { <<d>> : d \in PostDatas }
      [] w \in {"updatePost", "patchPost"} -> Ids \X PostDatas
      [] OTHER -> { <<i>> : i \in Ids }

\* The options a caller may pass to makeRequest.
OptionsSet ==
    { Undef,
      Obj(<< >>),
      Obj(<< <<"method", Str("DELETE")>> >>),
      Obj(<< <<"headers", Obj(<< <<"Authorization", Str("token")>> >>)>> >>),
      Obj(<< <<"headers", Obj(<< <<"Content-Type", Str("text/plain")>> >>)>> >>),
      Obj(<< <<"method", Str("POST")>>,
             <<"headers", Obj(<< <<"Accept", Str("*/*")>>,
                                 <<"Content-Type", Str("text/plain")>> >>)>>,
             <<"body", Str("{}")>> >>) }

\* The values a completed property may hold in a response.
CompletedFlags == {Bool(TRUE), Bool(FALSE), Num(1), Str("false"), Null}

\* The elements of an array in a response: todos, an element with no
\* completed property, a comment, and null.
Elements ==
    { Obj(<< <<"completed", c>> >>) : c \in CompletedFlags }
    \cup { Obj(<< <<"id", Num(1)>> >>),
           Obj(<< <<"body", Str("laudantium enim quasi")>> >>),
           Null }

\* The values response.json() may resolve to.
Bodies ==
    { Null, Obj(<< >>) }
    \cup { Obj(<< <<"id", Num(i)>>, <<"title", Str("t")>> >>) : i \in 1..MaxId }
    \cup { Arr(a) : a \in SeqsUpTo(Elements, MaxLen) }

----------------------------------------------------------------------------
(* State.                                                                  *)

VARIABLES
    entry,      \* the entry point called: "none" before any call
    step,       \* the position in the entry point's program
    call,       \* the call being awaited (wrapper name or "makeRequest", arguments)
    phase,      \* "idle", "fetch" (awaiting fetch), "json" (awaiting response.json()), "done"
    inflight,   \* the requests issued whose makeRequest call has not settled
    sent,       \* every request issued, in order
    response,   \* the response of the awaited makeRequest call: status, state
                \* of its JSON parse, parsed body
    mr,         \* how the awaited makeRequest call ended (Pending until it does)
    outcome,    \* how the entry point's own call ended
    newPostId,  \* runFullDemo's newPost.id
    console     \* the lines written to the console, in order

vars ==
    << entry, step, call, phase, inflight, sent, response, mr, outcome,
       newPostId, console >>

NoCall == Call("none", << >>)
NoResponse == [status |-> 0, parse |-> "not-attempted", body |-> Undef]

Init ==
    /\ entry = "none"
    /\ step = 0
    /\ call = NoCall
    /\ phase = "idle"
    /\ inflight = << >>
    /\ sent = << >>
    /\ response = NoResponse
    /\ mr = Pending
    /\ outcome = Pending
    /\ newPostId = Undef
    /\ console = << >>

\* An entry point is called: it runs up to its first await of fetch.
Start(e, c) ==
    LET prog == Program(e, c, Undef) IN
    /\ phase = "idle"
    /\ entry' = e
    /\ step' = 1
    /\ call' = prog[1]
    /\ phase' = "fetch"
    /\ inflight' = Issued(prog, 1)
    /\ sent' = Issued(prog, 1)
    /\ console' = DriverIntro(e)
                    \o (IF prog[1].w = "makeRequest" THEN << >>
                        ELSE << BeforeLine(prog[1].w, prog[1].args) >>)
    /\ UNCHANGED << response, mr, outcome, newPostId >>

RunFullDemo == Start("runFullDemo", NoCall)

QuickTest == Start("quickTest", NoCall)

\* node script.js: quickTest().then(...)
NodeMain == Start("main", NoCall)

CallWrapper == \E w \in Wrappers : \E a \in WrapperArgs(w) : Start("wrapper", Call(w, a))

CallMakeRequest ==
    \E o \in OptionsSet :
        Start("makeRequest", Call("makeRequest", << Str(API_BASE_URL \o "/posts"), o >>))

\* interactiveDemo(): prints the catalog, no request.
InteractiveDemo ==
    /\ phase = "idle"
    /\ entry' = "interactiveDemo"
    /\ phase' = "done"
    /\ console' = CatalogLines
    /\ outcome' = Return(Undef)
    /\ UNCHANGED << step, call, inflight, sent, response, mr, newPostId >>

\* The awaited makeRequest call settles with o, its console being cons and
\* its response resp: the wrapper finishes, and the entry point runs on to
\* its next await (a new makeRequest call, with no response yet) or its end.
Settle(o, cons, resp) ==
    LET direct == entry \notin Drivers
        wOut == IF call.w = "makeRequest" THEN o ELSE WrapperOutcome(call.w, o)
        cons1 == IF call.w # "makeRequest" /\ wOut.k = "return"
                 THEN Append(cons, AfterLine(call.w, call.args)) ELSE cons
        ownThrew == wOut.k = "return" /\ DriverStepThrows(entry, step, wOut.v)
        failed == StepFailed(wOut.k = "throw", ownThrew)
        err == IF wOut.k = "throw" THEN wOut.e ELSE PropertyError
        npid == IF entry = "runFullDemo" /\ step = 3 /\ wOut.k = "return"
                THEN GetProp(wOut.v, "id") ELSE newPostId
        prog == Program(entry, call, npid)
    IN
    /\ entry' = entry
    /\ IF direct
       THEN /\ outcome' = wOut
            /\ mr' = o
            /\ response' = resp
            /\ console' = cons1
            /\ phase' = "done"
            /\ inflight' = Tail(inflight)
            /\ UNCHANGED << step, call, sent, newPostId >>
       ELSE IF failed
       THEN /\ outcome' = Return(Undef)
            /\ mr' = o
            /\ response' = resp
            /\ console' = Append(cons1, FailLine(entry, err)) \o Hints(entry)
            /\ phase' = "done"
            /\ inflight' = Tail(inflight)
            /\ UNCHANGED << step, call, sent, newPostId >>
       ELSE IF step < Len(prog)
       THEN /\ outcome' = Pending
            /\ mr' = Pending
            /\ response' = NoResponse
            /\ newPostId' = npid
            /\ step' = step + 1
            /\ call' = prog[step + 1]
            /\ console' = cons1 \o DriverAfterStep(entry, step)
                            \o << BeforeLine(prog[step + 1].w, prog[step + 1].args) >>
            /\ phase' = "fetch"
            /\ inflight' = Tail(inflight) \o Issued(prog, step + 1)
            /\ sent' = sent \o Issued(prog, step + 1)
       ELSE /\ outcome' = Return(Undef)
            /\ mr' = o
            /\ response' = resp
            /\ console' = cons1 \o DriverAfterStep(entry, step) \o Hints(entry)
            /\ phase' = "done"
            /\ inflight' = Tail(inflight)
            /\ UNCHANGED << step, call, sent, newPostId >>

\* fetch resolves with a response of the given status.
FetchResolve ==
    \E status \in Statuses :
        /\ phase = "fetch"
        /\ inflight # << >>
        /\ IF ~ResponseOk(status)
           THEN Settle(Throw(HttpError(status)),
                       Append(console, ApiErrorLine(HttpError(status))),
                       [status |-> status, parse |-> "not-attempted", body |-> Undef])
           ELSE IF IsNoContent(status)
           THEN Settle(Return(SuccessMarker), console,
                       [status |-> status, parse |-> "not-attempted", body |-> Undef])
           ELSE /\ response' = [status |-> status, parse |-> "pending", body |-> Undef]
                /\ phase' = "json"
                /\ UNCHANGED << entry, step, call, inflight, sent, mr, outcome,
                                newPostId, console >>

\* fetch rejects: the request never produced a response.
FetchReject ==
    /\ phase = "fetch"
    /\ inflight # << >>
    /\ Settle(Throw(NetworkError), Append(console, ApiErrorLine(NetworkError)),
              NoResponse)

\* response.json() resolves with the parsed body.
JsonResolve ==
    \E v \in Bodies :
        /\ phase = "json"
        /\ inflight # << >>
        /\ Settle(Return(v), console,
                  [response EXCEPT !.parse = "parsed", !.body = v])

\* response.json() rejects: the body is not JSON.
JsonReject ==
    /\ phase = "json"
    /\ inflight # << >>
    /\ Settle(Throw(ParseError), Append(console, ApiErrorLine(ParseError)),
              [response EXCEPT !.parse = "failed"])

Network == FetchResolve \/ FetchReject \/ JsonResolve \/ JsonReject

Next ==
    \/ RunFullDemo
    \/ QuickTest
    \/ NodeMain
    \/ CallWrapper
    \/ CallMakeRequest
    \/ InteractiveDemo
    \/ FetchResolve
    \/ FetchReject
    \/ JsonResolve
    \/ JsonReject

Spec == Init /\ [][Next]_vars

\* The runs of the demo drivers alone.
DriverNext ==
    \/ RunFullDemo
    \/ QuickTest
    \/ NodeMain
    \/ FetchResolve
    \/ FetchReject
    \/ JsonResolve
    \/ JsonReject

\* The drivers when every request is eventually answered: each pending
\* network promise eventually settles.
DriverFairSpec == Init /\ [][DriverNext]_vars /\ WF_vars(Network)

----------------------------------------------------------------------------
(* Properties.                                                             *)

IsApiErrorLine(l) == l.ch = "error" /\ l.msg = "API Request failed:"
IsFailLine(l) == l.ch = "error" /\ l.msg \in {"Demo failed:", "Quick test failed:"}
IsBannerLine(l) ==
    /\ l.ch = "log"
    /\ l.msg \in {"\nDemo completed successfully!",
                  "\nAll tests passed! API is working correctly."}

LinesWhere(P(_)) == {i \in 1..Len(console) : P(console[i])}

Suspended == phase \in {"fetch", "json"}

\* The request of the call being awaited.
LastSent == sent[Len(sent)]

\* The options the awaited makeRequest call was given.
CallerOptions ==
    OptionsOrDefault(IF call.w = "makeRequest" THEN call.args[2]
                     ELSE WrapperOptions(call.w, call.args))

\* C1: a response with a non-2xx status makes the makeRequest call fail with
\* an error whose message carries that status; there is no return value, the
\* body is never parsed, and the failure is logged exactly once, before the
\* error reaches the caller (the wrapper's caller gets the same error, and a
\* driver's own failure line comes after the helper's line).
C1_HttpFailure ==
    (response.status # 0 /\ response.status \notin 200..299) =>
        /\ mr = Throw([name |-> "Error",
                       message |-> "HTTP error! status: " \o ToString(response.status)])
        /\ response.parse = "not-attempted"
        /\ Cardinality(LinesWhere(IsApiErrorLine)) = 1
        /\ \A i \in LinesWhere(IsApiErrorLine) :
              /\ console[i].err = mr.e
              /\ \A j \in LinesWhere(IsFailLine) : i < j /\ console[j].err = mr.e
        /\ entry \in {"makeRequest", "wrapper"} => outcome = mr

C1_Witness ==
    /\ entry = "wrapper"
    /\ call.w = "getUser"
    /\ response.status = 404
    /\ outcome.k = "throw"

\* C2: a 204 response yields {success: true} without any JSON parse; for any
\* other 2xx status the value returned is the parsed body.
C2_NoContent ==
    /\ response.status = 204 =>
          /\ mr = Return(Obj(<< <<"success", Bool(TRUE)>> >>))
          /\ response.parse = "not-attempted"
    /\ (response.status \in 200..299 /\ response.status # 204) =>
          /\ response.parse = "parsed" => mr = Return(response.body)
          /\ mr.k = "return" => response.parse = "parsed"
          /\ Suspended => response.parse = "pending"

C2_Witness ==
    /\ call.w = "deletePost"
    /\ response.status = 204
    /\ outcome = Return(Obj(<< <<"success", Bool(TRUE)>> >>))

\* C3: the headers sent are the default Content-Type: application/json merged
\* with the caller's headers: a caller's Content-Type replaces the default,
\* and the default is still sent when the caller's headers have none.
C3_HeadersMerged ==
    (Len(sent) > 0 /\ call.w \in Wrappers \cup {"makeRequest"}) =>
        LET given == Lookup(CallerOptions.f, "headers")
            hs == LastSent.headers
        IN /\ hs.t = "object"
           /\ Lookup(hs.f, "Content-Type") =
                 (IF given.t = "object" /\ HasKey(given.f, "Content-Type")
                  THEN Lookup(given.f, "Content-Type")
                  ELSE Str("application/json"))
           /\ given.t = "object" =>
                 \A i \in 1..Len(given.f) :
                     Lookup(hs.f, given.f[i][1]) = given.f[i][2]

----------------------------------------------------------------------------

\* The path and the method of section 4.2's table for wrapper w called with
\* the arguments a.
TablePath(w, a) ==
    CASE w \in {"getAllPosts", "createPost"} -> "/posts"
      [] w \in {"getPost", "updatePost", "patchPost", "deletePost"} ->
            "/posts/" \o TemplateStr(a[1])
      [] w = "getPostsByUser" -> "/posts?userId=" \o TemplateStr(a[1])
      [] w = "getAllComments" -> "/comments"
      [] w = "getCommentsForPost" -> "/posts/" \o TemplateStr(a[1]) \o "/comments"
      [] w = "getAllUsers" -> "/users"
      [] w = "getUser" -> "/users/" \o TemplateStr(a[1])
      [] w = "getUserAlbums" -> "/users/" \o TemplateStr(a[1]) \o "/albums"
      [] w = "getUserTodos" -> "/users/" \o TemplateStr(a[1]) \o "/todos"
      [] w = "getAllAlbums" -> "/albums"
      [] w = "getAlbumPhotos" -> "/albums/" \o TemplateStr(a[1]) \o "/photos"
      [] w = "getAllPhotos" -> "/photos"
      [] w \in {"getAllTodos", "getCompletedTodos"} -> "/todos"

TableMethod(w) ==
    CASE w = "createPost" -> "POST"
      [] w = "updatePost" -> "PUT"
      [] w = "patchPost" -> "PATCH"
      [] w = "deletePost" -> "DELETE"
      [] OTHER -> "GET"

\* C4: a wrapper call issues exactly one request, to the base URL followed
\* by the table's path with the argument substituted, with the table's
\* method; createPost and patchPost send exactly the serialized argument.
C4_WrapperRequest ==
    call.w \in Wrappers =>
        /\ Len(sent) = step
        /\ LastSent.url = "https://jsonplaceholder.typicode.com" \o TablePath(call.w, call.args)
        /\ LastSent.method = TableMethod(call.w)
        /\ call.w = "createPost" => LastSent.body = JSON_stringify(call.args[1])
        /\ call.w = "patchPost" => LastSent.body = JSON_stringify(call.args[2])
        /\ TableMethod(call.w) \in {"GET", "DELETE"} => LastSent.body = Undef

C4_Witness ==
    /\ entry = "wrapper"
    /\ call = Call("getCommentsForPost", <<Num(2)>>)
    /\ phase = "done"
    /\ Len(sent) = 1
    /\ outcome.k = "return"

\* C5: updatePost(id, postData) issues PUT /posts/{id} whose body is the
\* fields of postData plus an id field equal to the id argument.
C5_UpdateBodyId ==
    (call.w = "updatePost" /\ call.args[1].t = "number") =>
        LET id == call.args[1]
            data == call.args[2].f
            others == SelectSeq(data, LAMBDA kv : kv[1] # "id")
        IN /\ LastSent.method = "PUT"
           /\ LastSent.url = API_BASE_URL \o "/posts/" \o TemplateStr(id)
           /\ LastSent.body = JSON_stringify(Obj(<< <<"id", id>> >> \o others))

\* C6 as stated: getCompletedTodos returns exactly the elements whose
\* completed flag is true, in order; any element whose flag is not true is
\* excluded.
C6_OnlyTrue ==
    (entry = "wrapper" /\ call.w = "getCompletedTodos" /\ outcome.k = "return") =>
        outcome.v = Arr(SelectSeq(response.body.a,
                                  LAMBDA e : GetProp(e, "completed") = Bool(TRUE)))

\* C6 as amended: getCompletedTodos returns exactly the elements whose
\* completed flag is truthy (not false, 0, "", null or missing), in their
\* original order and unmodified; on a collection whose flags are all
\* booleans these are exactly the elements with completed equal to true.
C6_Truthy ==
    (entry = "wrapper" /\ call.w = "getCompletedTodos" /\ outcome.k = "return") =>
        LET todos == response.body.a
            Falsy(e) == GetProp(e, "completed")
                            \in {Undef, Null, Bool(FALSE), Num(0), Str("")}
            AllBoolean == \A i \in 1..Len(todos) :
                             GetProp(todos[i], "completed").t = "boolean"
        IN /\ outcome.v = Arr(SelectSeq(todos, LAMBDA e : ~Falsy(e)))
           /\ AllBoolean =>
                 outcome.v = Arr(SelectSeq(todos,
                                           LAMBDA e : GetProp(e, "completed") = Bool(TRUE)))

C6_Witness ==
    /\ entry = "wrapper"
    /\ call.w = "getCompletedTodos"
    /\ outcome.k = "return"
    /\ response.body = Arr(<< Obj(<< <<"completed", Bool(FALSE)>> >>),
                              Obj(<< <<"completed", Bool(TRUE)>> >>) >>)
    /\ outcome.v = Arr(<< Obj(<< <<"completed", Bool(TRUE)>> >>) >>)

----------------------------------------------------------------------------

\* The step being awaited has failed: its request failed, its wrapper threw
\* on the value returned, or the driver's own code threw on the result.
StepHasFailed ==
    \/ mr.k = "throw"
    \/ /\ mr.k = "return"
       /\ \/ WrapperThrows(call.w, mr.v)
          \/ DriverStepThrows(entry, step, WrapperResult(call.w, mr.v))

\* C7: once a step of runFullDemo or quickTest fails, no later request is
\* issued, the success banner is never printed, exactly one driver-level
\* failure message is logged, the driver's promise resolves, and no step is
\* retried (the requests issued are those of the steps reached, one each).
C7_AbortOnFailure ==
    entry \in Drivers =>
        /\ Len(sent) = step
        /\ \A i \in 1..Len(sent) :
              sent[i].url = WrapperUrl(Program(entry, call, newPostId)[i].w,
                                       Program(entry, call, newPostId)[i].args)
        /\ (LinesWhere(IsApiErrorLine) # {} \/ LinesWhere(IsFailLine) # {}) =>
              phase = "done" /\ StepHasFailed
        /\ StepHasFailed =>
              /\ phase = "done"
              /\ inflight = << >>
              /\ ~ENABLED Next
              /\ LinesWhere(IsBannerLine) = {}
              /\ Cardinality(LinesWhere(IsFailLine)) = 1
              /\ outcome = Return(Undef)

C7_Witness ==
    /\ entry = "runFullDemo"
    /\ step = 6
    /\ phase = "done"
    /\ mr.k = "return"
    /\ ~WrapperThrows(call.w, mr.v)
    /\ LinesWhere(IsFailLine) # {}

\* C8: a run of runFullDemo in which every request succeeds issues requests
\* of every method the wrappers support, GET, POST, PUT, PATCH and DELETE,
\* before the summary and the success banner are printed.
C8_EveryMethod ==
    (entry = "runFullDemo" /\ LinesWhere(IsBannerLine) # {}) =>
        {sent[i].method : i \in 1..Len(sent)} = {"GET", "POST", "PUT", "PATCH", "DELETE"}

\* C9: at most one request of a driver is in flight at any moment; a request
\* is issued only when no other is pending or in the very step in which the
\* answer to the pending one is processed, so requests and responses alternate; a quickTest that
\* passes has issued getPost(1), createPost, getPostsByUser(1),
\* getCommentsForPost(1) in this order.
C9_OneInFlight ==
    /\ [](entry \in Drivers => Len(inflight) <= 1)
    /\ [][(entry' \in Drivers /\ sent' # sent) =>
            /\ Len(sent') = Len(sent) + 1
            /\ SubSeq(sent', 1, Len(sent)) = sent
            /\ inflight' = << sent'[Len(sent')] >>
            /\ \/ inflight = << >> /\ phase = "idle"
               \/ Len(inflight) = 1 /\ Network /\ mr = Pending]_vars
    /\ []((entry \in {"quickTest", "main"} /\ LinesWhere(IsBannerLine) # {}) =>
            [i \in 1..Len(sent) |-> << sent[i].method, sent[i].url >>] =
               << << "GET", "https://jsonplaceholder.typicode.com/posts/1" >>,
                  << "POST", "https://jsonplaceholder.typicode.com/posts" >>,
                  << "GET", "https://jsonplaceholder.typicode.com/posts?userId=1" >>,
                  << "GET", "https://jsonplaceholder.typicode.com/posts/1/comments" >> >>)

C9_Witness ==
    /\ entry = "quickTest"
    /\ phase = "done"
    /\ Len(sent) = 4
    /\ mr.k = "return"
    /\ LinesWhere(IsBannerLine) # {}

\* C10: when every request is eventually answered a driver eventually
\* finishes; while a request is unanswered the driver stays suspended at
\* that step: nothing but a network event moves it, it has issued no later
\* request, and it has printed neither the success banner nor a failure
\* message.
C10_FinishOrHang ==
    /\ (entry \in Drivers) ~> (phase = "done")
    /\ []((entry \in Drivers /\ Suspended) =>
            /\ Len(inflight) = 1
            /\ inflight[1] = RequestOf(Program(entry, call, newPostId)[step])
            /\ Len(sent) = step
            /\ outcome = Pending
            /\ LinesWhere(IsBannerLine) = {}
            /\ LinesWhere(IsFailLine) = {})
    /\ [][Suspended => Network]_vars

C10_Witness ==
    /\ entry = "runFullDemo"
    /\ phase = "json"
    /\ step = 14

====
